---- MODULE Spec2Model ----
(***************************************************************************)
(* Model of company_extractor.py: the money-mention extractor, the range   *)
(* extractor, the normalizer, the estimator, the category inferrer, the    *)
(* per-record pipeline process_one and the concurrent batch process_rows.  *)
(*                                                                         *)
(* A Python str is a sequence of one-character strings, so that regular    *)
(* expression matching, lower(), substring tests and number formatting are *)
(* computed character by character, as the code computes them.             *)
(***************************************************************************)
EXTENDS Integers, Sequences, FiniteSets, TLC

---------------------------------------------------------------------------
(* Characters and str methods                                              *)

DIGITS == <<"0","1","2","3","4","5","6","7","8","9">>
UPPER == <<"A","B","C","D","E","F","G","H","I","J","K","L","M","N","O","P","Q","R","S","T","U","V","W","X","Y","Z">>
LOWER == <<"a","b","c","d","e","f","g","h","i","j","k","l","m","n","o","p","q","r","s","t","u","v","w","x","y","z">>

Min(s) == CHOOSE x \in s : \A y \in s : x <= y

DigitSet == {DIGITS[i] : i \in 1..10}
UpperSet == {UPPER[i] : i \in 1..26}
LowerSet == {LOWER[i] : i \in 1..26}
DIGIT_VAL == [c \in DigitSet |-> (CHOOSE i \in 1..10 : DIGITS[i] = c) - 1]
LOWER_OF == [c \in UpperSet |-> LOWER[CHOOSE i \in 1..26 : UPPER[i] = c]]

IsDigit(c) == c \in DigitSet
DigitVal(c) == DIGIT_VAL[c]
IsUpper(c) == c \in UpperSet
IsLower(c) == c \in LowerSet

\* \s of the re module, over the characters the model's texts are made of
IsSpace(c) == c = " "
\* \w of the re module
IsWord(c) == IsDigit(c) \/ IsUpper(c) \/ IsLower(c) \/ c = "_"

LowerChar(c) == IF IsUpper(c) THEN LOWER_OF[c] ELSE c
\* str.lower()
lower(s) == [i \in 1..Len(s) |-> LowerChar(s[i])]

\* the literal w occurs in t at position p
LitAt(t, p, w) ==
    /\ p >= 1
    /\ p + Len(w) - 1 <= Len(t)
    /\ \A k \in 1..Len(w) : t[p + k - 1] = w[k]
\* the same under re.IGNORECASE, for a lower-case literal w
LitAtI(t, p, w) ==
    /\ p >= 1
    /\ p + Len(w) - 1 <= Len(t)
    /\ \A k \in 1..Len(w) : LowerChar(t[p + k - 1]) = w[k]

\* k in hay
Contains(hay, k) == \E p \in 1..(Len(hay) - Len(k) + 1) : hay[p] = k[1] /\ LitAt(hay, p, k)

\* " ".join(texts)
RECURSIVE Join(_)
Join(texts) ==
    IF Len(texts) = 0 THEN <<>>
    ELSE IF Len(texts) = 1 THEN texts[1]
    ELSE texts[1] \o <<" ">> \o Join(Tail(texts))

\* html.unescape, on the character references the model's texts use
ENTITIES == << [ref |-> <<"&","a","m","p",";">>, char |-> <<"&">>],
               [ref |-> <<"&","p","o","u","n","d",";">>, char |-> <<"£">>],
               [ref |-> <<"&","#","3","6",";">>, char |-> <<"$">>] >>
EntityAt(s, p) ==
    LET hits == {i \in 1..Len(ENTITIES) : LitAt(s, p, ENTITIES[i].ref)}
    IN IF hits = {} THEN 0 ELSE Min(hits)
\* no reference contains "&" after its first character, so references
\* never overlap and each one found is replaced
unescape(s) ==
    IF \A p \in 1..Len(s) : s[p] # "&" THEN s
    ELSE LET Inside(p) == \E q \in 1..(p - 1) :
                            /\ s[q] = "&"
                            /\ EntityAt(s, q) # 0
                            /\ p < q + Len(ENTITIES[EntityAt(s, q)].ref)
             kept == SelectSeq([p \in 1..Len(s) |-> p], LAMBDA p : ~Inside(p))
         IN [k \in 1..Len(kept) |->
                IF EntityAt(s, kept[k]) # 0 THEN ENTITIES[EntityAt(s, kept[k])].char[1]
                ELSE s[kept[k]]]

---------------------------------------------------------------------------
(* Numbers.  A float is the exact rational n/den it denotes.  The binary   *)
(* double differs from the rational only when the two-decimal formatting   *)
(* meets an exact tie (x.xx5), which Python resolves by the double's       *)
(* representation error; RoundDiv resolves it to the even neighbour, and   *)
(* the texts and rows of the model are chosen so that no tie arises.       *)

RECURSIVE Gcd(_, _)
Gcd(a, b) == IF b = 0 THEN a ELSE Gcd(b, a % b)

Rat(n, den) == LET g == Gcd(n, den) IN
    IF g = 0 THEN [n |-> 0, den |-> 1] ELSE [n |-> n \div g, den |-> den \div g]
\* a * b, cross-reduced so that the intermediate products stay small
RMul(a, b) ==
    LET x == Rat(a.n, b.den)
        y == Rat(b.n, a.den)
    IN [n |-> x.n * y.n, den |-> x.den * y.den]
RAdd(a, b) == Rat(a.n * b.den + b.n * a.den, a.den * b.den)
RLess(a, b) == a.n * b.den < b.n * a.den

RECURSIVE Pow10(_)
Pow10(k) == IF k = 0 THEN 1 ELSE 10 * Pow10(k - 1)

\* str.replace(",", "")
StripCommas(s) == SelectSeq(s, LAMBDA c : c # ",")

RECURSIVE DigitsVal(_, _)
DigitsVal(s, acc) ==
    IF Len(s) = 0 THEN acc
    ELSE IF s[1] = "." THEN DigitsVal(Tail(s), acc)
    ELSE DigitsVal(Tail(s), 10 * acc + DigitVal(s[1]))

\* float(s) of a decimal literal "ddd" or "ddd.ddd"
ParseFloat(s) ==
    LET dots == {i \in 1..Len(s) : s[i] = "."}
        frac == IF dots = {} THEN 0 ELSE Len(s) - Min(dots)
    IN Rat(DigitsVal(s, 0), Pow10(frac))

RECURSIVE IntStr(_)
IntStr(n) == IF n < 10 THEN <<DIGITS[n + 1]>>
             ELSE IntStr(n \div 10) \o <<DIGITS[(n % 10) + 1]>>

\* round(a / b) to the nearest integer, a tie to the even one
RoundDiv(a, b) ==
    LET q == a \div b
        r == a % b
    IN IF 2 * r < b THEN q
       ELSE IF 2 * r > b THEN q + 1
       ELSE IF q % 2 = 0 THEN q ELSE q + 1

\* f"{x:.2f} Cr"
FormatCr(x) ==
    LET y == RMul(x, [n |-> 100, den |-> 1])
        h == RoundDiv(y.n, y.den)
    IN IntStr(h \div 100) \o <<".">> \o <<DIGITS[((h % 100) \div 10) + 1], DIGITS[(h % 10) + 1]>> \o <<" ","C","r">>

\* s.split()[0]
SplitFirst(s) ==
    LET from == Min({p \in 1..(Len(s) + 1) : p > Len(s) \/ ~IsSpace(s[p])})
        to == Min({p \in from..(Len(s) + 1) : p > Len(s) \/ IsSpace(s[p])})
    IN SubSeq(s, from, to - 1)

---------------------------------------------------------------------------
(* Tables                                                                  *)

NAME_MAP == <<
    [keys |-> <<<<"p","a","i","n","t">>, <<"c","o","a","t","i","n","g">>>>, mapped |-> <<<<"M","a","n","u","f","a","c","t","u","r","i","n","g">>, <<"C","o","n","s","u","m","e","r"," ","G","o","o","d","s">>, <<"p","a","i","n","t"," ","p","r","o","d","u","c","t","s">>>>],
    [keys |-> <<<<"c","h","e","m","i","c","a","l">>>>, mapped |-> <<<<"M","a","n","u","f","a","c","t","u","r","i","n","g">>, <<"I","n","d","u","s","t","r","i","a","l">>, <<"i","n","d","u","s","t","r","i","a","l"," ","c","h","e","m","i","c","a","l","s">>>>],
    [keys |-> <<<<"l","o","g","i","s","t","i","c","s">>, <<"t","r","a","n","s","p","o","r","t">>>>, mapped |-> <<<<"T","r","a","n","s","p","o","r","t","a","t","i","o","n">>, <<"L","o","g","i","s","t","i","c","s">>, <<"f","r","e","i","g","h","t">>>>],
    [keys |-> <<<<"e","l","e","c","t","r","i","c","a","l">>, <<"e","l","e","c","t","r","o","n","i","c","s">>>>, mapped |-> <<<<"R","e","t","a","i","l">>, <<"S","p","e","c","i","a","l","t","y">>, <<"e","l","e","c","t","r","o","n","i","c","s"," ","r","e","t","a","i","l">>>>],
    [keys |-> <<<<"h","a","r","d","w","a","r","e">>>>, mapped |-> <<<<"R","e","t","a","i","l">>, <<"S","p","e","c","i","a","l","t","y">>, <<"h","a","r","d","w","a","r","e"," ","r","e","t","a","i","l">>>>],
    [keys |-> <<<<"t","r","a","d","e","r">>, <<"t","r","a","d","i","n","g">>>>, mapped |-> <<<<"R","e","t","a","i","l">>, <<"S","t","o","r","e"," ","R","e","t","a","i","l">>, <<"g","e","n","e","r","a","l"," ","t","r","a","d","i","n","g">>>>],
    [keys |-> <<<<"g","e","n","e","r","a","l"," ","s","t","o","r","e">>, <<"g","e","n","e","r","a","l"," ","s","t","o","r","e","s">>>>, mapped |-> <<<<"R","e","t","a","i","l">>, <<"S","t","o","r","e"," ","R","e","t","a","i","l">>, <<"g","e","n","e","r","a","l"," ","s","t","o","r","e">>>>],
    [keys |-> <<<<"p","o","l","y","m","e","r">>>>, mapped |-> <<<<"M","a","n","u","f","a","c","t","u","r","i","n","g">>, <<"I","n","d","u","s","t","r","i","a","l">>, <<"p","o","l","y","m","e","r"," ","p","r","o","d","u","c","t","s">>>>],
    [keys |-> <<<<"b","i","t","u","m","e","n">>>>, mapped |-> <<<<"M","a","n","u","f","a","c","t","u","r","i","n","g">>, <<"I","n","d","u","s","t","r","i","a","l">>, <<"b","i","t","u","m","e","n"," ","p","r","o","d","u","c","t","s">>>>] >>

ESTIMATE_BY_KEYWORD == <<
    [keys |-> <<<<"l","o","g","i","s","t","i","c","s">>, <<"t","r","a","n","s","p","o","r","t">>>>, value |-> 25],
    [keys |-> <<<<"b","i","t","u","m","e","n">>, <<"p","o","l","y","m","e","r">>, <<"c","h","e","m","i","c","a","l">>>>, value |-> 18],
    [keys |-> <<<<"p","a","i","n","t">>, <<"c","o","a","t","i","n","g">>>>, value |-> 12],
    [keys |-> <<<<"e","l","e","c","t","r","i","c","a","l">>, <<"e","l","e","c","t","r","o","n","i","c","s">>>>, value |-> 8],
    [keys |-> <<<<"h","a","r","d","w","a","r","e">>>>, value |-> 7],
    [keys |-> <<<<"t","r","a","d","e","r">>, <<"t","r","a","d","i","n","g">>>>, value |-> 6],
    [keys |-> <<<<"s","t","o","r","e">>>>, value |-> 5] >>

FX == [USD |-> 83, EUR |-> 90, GBP |-> 105, INR |-> 1]

UNIT == <<
    [key |-> <<"c","r">>, mul |-> 10000000],
    [key |-> <<"c","r","o","r","e">>, mul |-> 10000000],
    [key |-> <<"c","r","o","r","e","s">>, mul |-> 10000000],
    [key |-> <<"l","a","k","h">>, mul |-> 100000],
    [key |-> <<"l","a","k","h","s">>, mul |-> 100000],
    [key |-> <<"m","i","l","l","i","o","n">>, mul |-> 1000000],
    [key |-> <<"m">>, mul |-> 1000000],
    [key |-> <<"b","i","l","l","i","o","n">>, mul |-> 1000000000],
    [key |-> <<"b","n">>, mul |-> 1000000000] >>

---------------------------------------------------------------------------
(* Regular expressions                                                     *)

\* the currency alternatives of MONEY_RE's cur1, in pattern order; rs\.? is
\* greedy, so "rs." is tried before "rs"
CUR1 == <<<<"₹">>, <<"$">>, <<"€">>, <<"£">>, <<"i","n","r">>, <<"u","s","d">>, <<"e","u","r">>, <<"g","b","p">>, <<"r","s",".">>, <<"r","s">>>>
\* the unit alternatives of MONEY_RE and of the range pattern, in pattern order
UNITS == <<<<"c","r">>, <<"c","r","o","r","e">>, <<"c","r","o","r","e","s">>, <<"l","a","k","h">>, <<"l","a","k","h","s">>, <<"m","i","l","l","i","o","n">>, <<"m">>, <<"m","n">>, <<"b","i","l","l","i","o","n">>, <<"b","n">>>>
CUR2 == <<<<"i","n","r">>, <<"u","s","d">>, <<"e","u","r">>, <<"g","b","p">>>>

\* \s*
RECURSIVE SkipSpaces(_, _)
SkipSpaces(t, p) == IF p <= Len(t) /\ IsSpace(t[p]) THEN SkipSpaces(t, p + 1) ELSE p
\* [\d,]*
RECURSIVE SkipDigitsCommas(_, _)
SkipDigitsCommas(t, p) ==
    IF p <= Len(t) /\ (IsDigit(t[p]) \/ t[p] = ",") THEN SkipDigitsCommas(t, p + 1) ELSE p
\* \d*
RECURSIVE SkipDigits(_, _)
SkipDigits(t, p) == IF p <= Len(t) /\ IsDigit(t[p]) THEN SkipDigits(t, p + 1) ELSE p

DigitAt(t, p) == p >= 1 /\ p <= Len(t) /\ IsDigit(t[p])

\* \d[\d,]*(?:\.\d+)? at p (t[p] is a digit): the position after the literal
NumEnd(t, p) ==
    LET q == SkipDigitsCommas(t, p + 1)
    IN IF q <= Len(t) /\ t[q] = "." /\ DigitAt(t, q + 1) THEN SkipDigits(t, q + 1) ELSE q

\* an ordered alternation whose continuation cannot fail: the first
\* alternative that matches at p, 0 when none does
FirstAlt(t, p, alts) ==
    LET hits == {i \in 1..Len(alts) : LitAtI(t, p, alts[i])}
    IN IF hits = {} THEN 0 ELSE Min(hits)

NoMatch == [ok |-> FALSE]

\* MONEY_RE.match(t, p): positions are 1-based, end is one past the match;
\* a group that did not take part is the empty string (Python's None)
MoneyAt(t, p) ==
    LET curs == {i \in 1..Len(CUR1) :
                    /\ LitAtI(t, p, CUR1[i])
                    /\ DigitAt(t, SkipSpaces(t, p + Len(CUR1[i])))}
        cl == IF curs = {} THEN 0 ELSE Len(CUR1[Min(curs)])
        ns == SkipSpaces(t, p + cl)
    IN IF ~DigitAt(t, ns) THEN NoMatch
       ELSE LET ne == NumEnd(t, ns)
                us == SkipSpaces(t, ne)
                ui == FirstAlt(t, us, UNITS)
                ue == IF ui = 0 THEN us ELSE us + Len(UNITS[ui])
                cs == SkipSpaces(t, ue)
                ci == FirstAlt(t, cs, CUR2)
                ce == IF ci = 0 THEN cs ELSE cs + Len(CUR2[ci])
            IN [ok |-> TRUE, start |-> p, end |-> ce,
                cur1 |-> SubSeq(t, p, p + cl - 1),
                num |-> SubSeq(t, ns, ne - 1),
                unit |-> SubSeq(t, us, ue - 1),
                cur2 |-> SubSeq(t, cs, ce - 1)]

\* a match begins with a currency marker, white space or a digit
MayStart(c) == IsDigit(c) \/ IsSpace(c) \/ \E i \in 1..Len(CUR1) : CUR1[i][1] = LowerChar(c)

\* MONEY_RE.finditer(t): the scan resumes at the end of each match; starts
\* is the set of positions at which the pattern matches
RECURSIVE ScanFrom(_, _, _)
ScanFrom(t, starts, p) ==
    LET later == {q \in starts : q >= p}
    IN IF later = {} THEN <<>>
       ELSE LET m == MoneyAt(t, Min(later))
            IN <<m>> \o ScanFrom(t, starts, m.end)
finditer(t) == ScanFrom(t, {p \in 1..Len(t) : MayStart(t[p]) /\ MoneyAt(t, p).ok}, 1)

\* \b at p: between t[p-1] and t[p]
WordAt(t, p) == p >= 1 /\ p <= Len(t) /\ IsWord(t[p])
Boundary(t, p) == WordAt(t, p - 1) # WordAt(t, p)

\* \b(w1|w2|...)\b found somewhere in win
SearchWords(win, words) ==
    \E i \in 1..Len(words) : \E q \in 1..(Len(win) - Len(words[i]) + 1) :
        /\ win[q] = words[i][1]
        /\ LitAt(win, q, words[i])
        /\ Boundary(win, q)
        /\ Boundary(win, q + Len(words[i]))

\* \b(fy\d{2,4}|fy\s\d{2,4})\b found somewhere in win
SearchFy(win) ==
    \E q \in 1..(Len(win) - 1) : win[q] = "f" /\ \E gap \in {0, 1} : \E k \in 2..4 :
        /\ LitAt(win, q, <<"f","y">>)
        /\ Boundary(win, q)
        /\ gap = 1 => (q + 2 <= Len(win) /\ IsSpace(win[q + 2]))
        /\ \A j \in 0..(k - 1) : DigitAt(win, q + 2 + gap + j)
        /\ Boundary(win, q + 2 + gap + k)

GATE_WORDS == <<<<"t","u","r","n","o","v","e","r">>, <<"r","e","v","e","n","u","e">>, <<"s","a","l","e","s">>, <<"i","n","c","o","m","e">>, <<"a","n","n","u","a","l"," ","r","e","p","o","r","t">>, <<"f","i","n","a","n","c","i","a","l"," ","s","t","a","t","e","m","e","n","t">>>>
BONUS_WORDS == <<<<"t","u","r","n","o","v","e","r">>, <<"r","e","v","e","n","u","e">>, <<"a","n","n","u","a","l"," ","t","u","r","n","o","v","e","r">>>>

\* the range pattern from its first unit on: \s*(?:to|-)\s*(num)\s*(unit)
RangeRest(t, q) ==
    LET a == SkipSpaces(t, q)
        b == IF LitAt(t, a, <<"t","o">>) THEN a + 2 ELSE IF LitAt(t, a, <<"-">>) THEN a + 1 ELSE 0
        ns == SkipSpaces(t, b)
    IN IF b = 0 \/ ~DigitAt(t, ns) THEN NoMatch
       ELSE LET ne == NumEnd(t, ns)
                us == SkipSpaces(t, ne)
                ui == FirstAlt(t, us, UNITS)
            IN IF ui = 0 THEN NoMatch
               ELSE [ok |-> TRUE, g3 |-> SubSeq(t, ns, ne - 1), g4 |-> UNITS[ui]]

\* the range pattern matched at p; the first unit backtracks through its
\* alternatives until the rest of the pattern matches
RangeAt(t, p) ==
    IF ~DigitAt(t, p) THEN NoMatch
    ELSE LET ne == NumEnd(t, p)
             us == SkipSpaces(t, ne)
             alts == {i \in 1..Len(UNITS) :
                         LitAt(t, us, UNITS[i]) /\ RangeRest(t, us + Len(UNITS[i])).ok}
         IN IF alts = {} THEN NoMatch
            ELSE LET u == UNITS[Min(alts)]
                     r == RangeRest(t, us + Len(u))
                 IN [ok |-> TRUE, g1 |-> SubSeq(t, p, ne - 1), g2 |-> u,
                     g3 |-> r.g3, g4 |-> r.g4]

\* re.search(range pattern, t)
RangeSearch(t) ==
    LET ps == {p \in 1..Len(t) : RangeAt(t, p).ok}
    IN IF ps = {} THEN NoMatch ELSE RangeAt(t, Min(ps))

---------------------------------------------------------------------------
(* The pure functions of company_extractor.py                              *)

infer_category(company, text) ==
    LET hay == lower(company \o <<" ">> \o text)
        hits == {i \in 1..Len(NAME_MAP) :
                    \E j \in 1..Len(NAME_MAP[i].keys) : Contains(hay, NAME_MAP[i].keys[j])}
    IN IF hits = {} THEN <<<<>>, <<>>, <<>>>> ELSE NAME_MAP[Min(hits)].mapped

\* the loop's last value returned where the default belongs
estimate_last_value(company_name) ==
    LET c == lower(company_name)
        hits == {i \in 1..Len(ESTIMATE_BY_KEYWORD) :
                    \E j \in 1..Len(ESTIMATE_BY_KEYWORD[i].keys) :
                        Contains(c, ESTIMATE_BY_KEYWORD[i].keys[j])}
    IN FormatCr(Rat(ESTIMATE_BY_KEYWORD[IF hits = {} THEN Len(ESTIMATE_BY_KEYWORD) ELSE Min(hits)].value, 1))
estimate_turnover_in_cr(company_name) ==
    LET c == lower(company_name)
        hits == {i \in 1..Len(ESTIMATE_BY_KEYWORD) :
                    \E j \in 1..Len(ESTIMATE_BY_KEYWORD[i].keys) :
                        Contains(c, ESTIMATE_BY_KEYWORD[i].keys[j])}
    IN IF hits = {} THEN <<"1","0",".","0","0"," ","C","r">>
       ELSE FormatCr(Rat(ESTIMATE_BY_KEYWORD[Min(hits)].value, 1))

\* UNIT.get((unit or "").lower(), 1.0)
UnitMul(unit) ==
    LET u == lower(unit)
        hits == {i \in 1..Len(UNIT) : UNIT[i].key = u}
    IN IF hits = {} THEN 1 ELSE UNIT[Min(hits)].mul

\* str.replace(old, new), all occurrences, left to right
RECURSIVE Replace(_, _, _)
Replace(s, old, new) ==
    IF Len(s) = 0 THEN <<>>
    ELSE IF Len(old) <= Len(s) /\ SubSeq(s, 1, Len(old)) = old
         THEN new \o Replace(SubSeq(s, Len(old) + 1, Len(s)), old, new)
         ELSE <<s[1]>> \o Replace(Tail(s), old, new)

to_inr_cr(amount, unit, currency) ==
    LET mul == UnitMul(unit)
        cur == Replace(Replace(lower(IF currency = <<>> THEN <<"I","N","R">> ELSE currency),
                               <<"r","s",".">>, <<"i","n","r">>), <<"r","s">>, <<"i","n","r">>)
        rate == IF cur \in {<<"$">>, <<"u","s","d">>} THEN FX.USD
                ELSE IF cur \in {<<"€">>, <<"e","u","r">>} THEN FX.EUR
                ELSE IF cur \in {<<"£">>, <<"g","b","p">>} THEN FX.GBP
                ELSE FX.INR
    \* (amount * mul * rate) / 10_000_000; mul / 10_000_000 is reduced first
    IN FormatCr(RMul(RMul(amount, Rat(mul, 10000000)), Rat(rate, 1)))

\* t_low[max(0, m.start() - 80):min(len(t_low), m.end() + 80)]
Window(t_low, m) ==
    LET lo == IF m.start - 80 < 1 THEN 1 ELSE m.start - 80
        hi == IF m.end - 1 + 80 > Len(t_low) THEN Len(t_low) ELSE m.end - 1 + 80
    IN SubSeq(t_low, lo, hi)

Gated(win) == SearchWords(win, GATE_WORDS) \/ SearchFy(win)

\* the score of match m, in halves (1.0 is 2)
Score(m, win) ==
    2 + (IF m.unit # <<>> THEN 2 ELSE 0)
      + (IF m.cur1 # <<>> \/ m.cur2 # <<>> THEN 1 ELSE 0)
      + (IF SearchWords(win, BONUS_WORDS) THEN 2 ELSE 0)

\* the pass with `score >= best_score`: the last of equal scores wins
ExtractStepLastWins(t_low, m, acc) ==
    LET win == Window(t_low, m)
        num == ParseFloat(StripCommas(m.num))
        cur == IF m.cur1 # <<>> THEN m.cur1 ELSE m.cur2
    IN IF ~Gated(win) THEN acc
       ELSE IF m.unit = <<>> /\ cur = <<>> /\ RLess(num, Rat(1000000, 1)) THEN acc
       ELSE IF Score(m, win) >= acc.best_score
            THEN [best |-> to_inr_cr(num, m.unit, cur), best_score |-> Score(m, win)]
            ELSE acc
\* one pass of the for-loop of extract_turnover_in_cr over match m
ExtractStep(t_low, m, acc) ==
    LET win == Window(t_low, m)
        num == ParseFloat(StripCommas(m.num))
        cur == IF m.cur1 # <<>> THEN m.cur1 ELSE m.cur2
    IN IF ~Gated(win) THEN acc
       ELSE IF m.unit = <<>> /\ cur = <<>> /\ RLess(num, Rat(1000000, 1)) THEN acc
       ELSE LET val == to_inr_cr(num, m.unit, cur)
                score == Score(m, win)
            IN IF score > acc.best_score
               THEN [best |-> val, best_score |-> score]
               ELSE acc

RECURSIVE ExtractLoop(_, _, _, _)
ExtractLoop(t_low, ms, k, acc) ==
    IF k > Len(ms) THEN acc
    ELSE ExtractLoop(t_low, ms, k + 1, ExtractStep(t_low, ms[k], acc))

extract_turnover_in_cr(text) ==
    LET t == unescape(text)
        t_low == lower(t)
    IN ExtractLoop(t_low, finditer(t), 1, [best |-> <<>>, best_score |-> -2]).best

\* the low bound returned where the mean belongs
extract_range_low(text) ==
    LET t == lower(unescape(text))
        m == RangeSearch(t)
    IN IF ~m.ok THEN <<>>
       ELSE to_inr_cr(ParseFloat(StripCommas(m.g1)), m.g2, <<"I","N","R">>)
extract_range_turnover_in_cr(text) ==
    LET t == lower(unescape(text))
        m == RangeSearch(t)
    IN IF ~m.ok THEN <<>>
       ELSE LET low == ParseFloat(SplitFirst(to_inr_cr(ParseFloat(StripCommas(m.g1)), m.g2, <<"I","N","R">>)))
                high == ParseFloat(SplitFirst(to_inr_cr(ParseFloat(StripCommas(m.g3)), m.g4, <<"I","N","R">>)))
            IN FormatCr(RMul(RAdd(low, high), Rat(1, 2)))

---------------------------------------------------------------------------
(* The network.  ddg_results and fetch_page_text either raise or return.   *)
(* The variable web is what the network may do: the .result items each     *)
(* query would get, the visible text of each page, the queries and urls    *)
(* that are down (the request always raises) and those that are flaky (it  *)
(* raises or answers, either may happen).                                  *)

MAX_RESULTS == 5
PAGE_CHAR_LIMIT == 120000

\* the six query strings of process_one
Queries(name, city) ==
    LET nc == <<"\"">> \o name \o <<"\""," ","\"">> \o city \o <<"\"">>
    IN << nc \o <<" ","t","u","r","n","o","v","e","r"," ","r","e","v","e","n","u","e">>,
          nc \o <<" ","a","n","n","u","a","l"," ","s","a","l","e","s">>,
          nc \o <<" ","a","n","n","u","a","l"," ","r","e","p","o","r","t"," ","p","d","f"," ","r","e","v","e","n","u","e">>,
          nc \o <<" ","f","i","n","a","n","c","i","a","l"," ","s","t","a","t","e","m","e","n","t","s"," ","r","e","v","e","n","u","e">>,
          nc \o <<" ","b","a","l","a","n","c","e"," ","s","h","e","e","t"," ","r","e","v","e","n","u","e">>,
          nc \o <<" ","c","o","m","p","a","n","y"," ","p","r","o","f","i","l","e">> >>

\* ddg_results on a response whose .result items are `items`, each
\* <<href, title, snippet>> with href already cleaned by _clean_ddg_url
RECURSIVE KeepWithHref(_)
KeepWithHref(items) ==
    IF Len(items) = 0 THEN <<>>
    ELSE IF items[1][1] # <<>> THEN <<items[1]>> \o KeepWithHref(Tail(items))
    ELSE KeepWithHref(Tail(items))
ddg_results(items) ==
    KeepWithHref(SubSeq(items, 1, IF Len(items) < MAX_RESULTS THEN Len(items) ELSE MAX_RESULTS))

\* fetch_page_text on a response whose visible text, soup.get_text(), is `body`
fetch_page_text(body) ==
    LET u == unescape(body)
    IN SubSeq(u, 1, IF Len(u) < PAGE_CHAR_LIMIT THEN Len(u) ELSE PAGE_CHAR_LIMIT)

PROBE_URL == <<"h","t","t","p","s",":","/","/","h","t","m","l",".","d","u","c","k","d","u","c","k","g","o",".","c","o","m","/","h","t","m","l","/","?","q","=","t","e","s","t">>

---------------------------------------------------------------------------
(* State                                                                   *)

VARIABLES
    rows,              \* the argument of process_rows
    FAST_MODE,         \* module switches, never written
    DEEP_FETCH,
    SEARCH_AVAILABLE,  \* "None", "True" or "False"
    web,               \* [items, body, qdown, qflaky, fdown, fflaky]
    task,              \* per submitted row: the future and the locals of its process_one
    next,              \* process_rows: the next row to submit
    yielded,           \* process_rows: the futures as_completed has yielded, in order
    out,               \* process_rows: the result list
    mainpc,            \* process_rows: "submit", "collect", "returned", "aborted"
    ext                \* the extractor applied alone: [text, fn, res]

vars == <<rows, FAST_MODE, DEEP_FETCH, SEARCH_AVAILABLE, web, task, next, yielded, out, mainpc, ext>>
pipe_vars == <<rows, FAST_MODE, DEEP_FETCH, SEARCH_AVAILABLE, web, task, next, yielded, out, mainpc>>

WORKERS == 6

None == [none |-> TRUE]

NewTask == [pc |-> "idle", q |-> 1, seen |-> {}, texts |-> <<>>, calls |-> <<>>,
            sa |-> "None", ran |-> <<>>, result |-> None, exc |-> FALSE]

Running(t) == t.pc \in {"su_check", "su_probe", "su_return", "query", "extract"}

---------------------------------------------------------------------------
(* search_up, one step per access to the shared SEARCH_AVAILABLE           *)

\* line 237: `not FAST_MODE and search_up()` short-circuits on FAST_MODE
StartFastAlso(fast) == "su_check"
StartPc(fast) == IF fast THEN "extract" ELSE "su_check"

\* a worker thread takes the queued call of process_one
Start(i) ==
    /\ task[i].pc = "queued"
    /\ Cardinality({j \in DOMAIN task : Running(task[j])}) < WORKERS
    /\ task' = [task EXCEPT ![i].pc = StartPc(FAST_MODE), ![i].texts = <<>>]
    /\ UNCHANGED <<rows, FAST_MODE, DEEP_FETCH, SEARCH_AVAILABLE, web, next, yielded, out, mainpc, ext>>

\* after search_up returned sa: enter the query loop or skip it
AfterSearchUp(t, sa) ==
    IF sa = "True" THEN [t EXCEPT !.pc = "query", !.q = 1, !.seen = {}, !.sa = sa]
    ELSE [t EXCEPT !.pc = "extract", !.sa = sa]

\* lines 144-145
SearchUpCheck(i) ==
    /\ task[i].pc = "su_check"
    /\ task' = [task EXCEPT ![i] =
           IF SEARCH_AVAILABLE # "None" THEN AfterSearchUp(@, SEARCH_AVAILABLE)
           ELSE [@ EXCEPT !.pc = "su_probe"]]
    /\ UNCHANGED <<rows, FAST_MODE, DEEP_FETCH, SEARCH_AVAILABLE, web, next, yielded, out, mainpc, ext>>

\* lines 146-150: the probe request succeeds or raises, and the outcome is stored
SearchUpProbe(i) ==
    /\ task[i].pc = "su_probe"
    /\ \E ok \in BOOLEAN :
        /\ SEARCH_AVAILABLE' = IF ok THEN "True" ELSE "False"
        /\ task' = [task EXCEPT ![i].pc = "su_return",
                                ![i].calls = Append(@, [op |-> "probe", arg |-> PROBE_URL, ok |-> ok])]
    /\ UNCHANGED <<rows, FAST_MODE, DEEP_FETCH, web, next, yielded, out, mainpc, ext>>

\* line 151: return SEARCH_AVAILABLE reads the global again
SearchUpReturn(i) ==
    /\ task[i].pc = "su_return"
    /\ task' = [task EXCEPT ![i] = AfterSearchUp(@, SEARCH_AVAILABLE)]
    /\ UNCHANGED <<rows, FAST_MODE, DEEP_FETCH, SEARCH_AVAILABLE, web, next, yielded, out, mainpc, ext>>

---------------------------------------------------------------------------
(* process_one: evidence gathering                                         *)

\* line 257
SkipUrlNoDedup(url, seen) == url = <<>>
SkipUrl(url, seen) == url = <<>> \/ url \in seen

\* lines 252-264, from result r on; st holds texts, seen and calls, and
\* `bad` is the set of urls whose fetch raises
RECURSIVE ResultsLoop(_, _, _, _, _, _)
ResultsLoop(results, r, st, bad, deep, body) ==
    IF r > Len(results) THEN st
    ELSE LET url == results[r][1]
             title == results[r][2]
             snippet == results[r][3]
             t1 == IF snippet # <<>> THEN Append(st.texts, snippet) ELSE st.texts
             t2 == IF title # <<>> THEN Append(t1, title) ELSE t1
         IN IF SkipUrl(url, st.seen)
            THEN ResultsLoop(results, r + 1, [st EXCEPT !.texts = t2], bad, deep, body)
            ELSE ResultsLoop(results, r + 1,
                     [texts |-> IF deep /\ url \notin bad
                                THEN Append(t2, fetch_page_text(body[url])) ELSE t2,
                      seen |-> st.seen \cup {url},
                      calls |-> IF deep
                                THEN Append(st.calls, [op |-> "fetch", arg |-> url, ok |-> url \notin bad])
                                ELSE st.calls],
                     bad, deep, body)

\* lines 250-251: except Exception: continue
OnQueryErrorBreak(t, query, nq) ==
    [t EXCEPT !.q = nq + 1, !.pc = "extract",
              !.calls = Append(@, [op |-> "query", arg |-> query, ok |-> FALSE, results |-> <<>>])]
OnQueryErrorRaise(t, query, nq) ==
    [t EXCEPT !.pc = "done", !.exc = TRUE,
              !.calls = Append(@, [op |-> "query", arg |-> query, ok |-> FALSE, results |-> <<>>])]
OnQueryError(t, query, nq) ==
    [t EXCEPT !.q = @ + 1, !.pc = IF t.q = nq THEN "extract" ELSE "query",
              !.calls = Append(@, [op |-> "query", arg |-> query, ok |-> FALSE, results |-> <<>>])]

UrlsOf(results) == {results[r][1] : r \in 1..Len(results)}

\* one pass of `for q in queries` (lines 247-264); everything it writes is
\* local to the call
QueryStep(i) ==
    /\ task[i].pc = "query"
    /\ LET t == task[i]
           queries == Queries(rows[i].name, rows[i].city)
           query == queries[t.q]
           results == ddg_results(web.items[t.q])
       IN \/ /\ t.q \in web.qdown \cup web.qflaky
             /\ task' = [task EXCEPT ![i] = OnQueryError(t, query, Len(queries))]
          \/ /\ t.q \notin web.qdown
             /\ \E flaked \in SUBSET (IF DEEP_FETCH THEN web.fflaky \cap UrlsOf(results) ELSE {}) :
                LET bad == web.fdown \cup flaked
                    st == ResultsLoop(results, 1,
                              [texts |-> t.texts, seen |-> t.seen,
                               calls |-> Append(t.calls, [op |-> "query", arg |-> query,
                                                          ok |-> TRUE, results |-> results])],
                              bad, DEEP_FETCH, web.body)
                IN task' = [task EXCEPT ![i] =
                       [t EXCEPT !.texts = st.texts, !.seen = st.seen, !.calls = st.calls,
                                 !.q = @ + 1,
                                 !.pc = IF t.q = Len(queries) THEN "extract" ELSE "query"]]
    /\ UNCHANGED <<rows, FAST_MODE, DEEP_FETCH, SEARCH_AVAILABLE, web, next, yielded, out, mainpc, ext>>

---------------------------------------------------------------------------
(* process_one: lines 266-280                                              *)

\* both extractors on a text
Extracted(s) == [primary |-> extract_turnover_in_cr(s), range |-> extract_range_turnover_in_cr(s)]

\* lines 267-271 with the range extractor tried before the primary one
TurnoverRangeFirst(ev, raw, turnover_raw, est) ==
    IF ev.range # <<>> THEN [turnover |-> ev.range, ran |-> <<"range_text">>]
    ELSE IF ev.primary # <<>> THEN [turnover |-> ev.primary, ran |-> <<"range_text", "primary_text">>]
    ELSE [turnover |-> est, ran |-> <<"range_text", "primary_text", "estimate">>]
\* lines 267-271: `a or b` evaluates b only when a is empty; ev and raw are
\* what the extractors return on the evidence and on the raw field, est is
\* the estimate, and ran lists the calls the code makes, in order
Turnover(ev, raw, turnover_raw, est) ==
    IF ev.primary # <<>> THEN [turnover |-> ev.primary, ran |-> <<"primary_text">>]
    ELSE IF ev.range # <<>> THEN [turnover |-> ev.range, ran |-> <<"primary_text", "range_text">>]
    ELSE IF turnover_raw # <<>> /\ raw.primary # <<>>
         THEN [turnover |-> raw.primary, ran |-> <<"primary_text", "range_text", "primary_raw">>]
    ELSE IF turnover_raw # <<>> /\ raw.range # <<>>
         THEN [turnover |-> raw.range,
               ran |-> <<"primary_text", "range_text", "primary_raw", "range_raw">>]
    ELSE [turnover |-> est,
          ran |-> <<"primary_text", "range_text">>
                  \o (IF turnover_raw # <<>> THEN <<"primary_raw", "range_raw">> ELSE << >>)
                  \o <<"estimate">>]

\* lines 266-280: the values of the function's locals, then the return
Finish(i) ==
    /\ task[i].pc = "extract"
    /\ \E text \in {Join(task[i].texts)} :
       \E ex \in {[s \in {text, rows[i].turnover_raw} |-> Extracted(s)]} :
       \E tv \in {Turnover(ex[text], ex[rows[i].turnover_raw], rows[i].turnover_raw,
                           estimate_turnover_in_cr(rows[i].name))} :
       \E cat \in {infer_category(rows[i].name, text)} :
          task' = [task EXCEPT ![i].pc = "done", ![i].ran = tv.ran,
                      ![i].result = [company_name |-> rows[i].name, city |-> rows[i].city,
                                     turnover_in_cr |-> tv.turnover,
                                     category |-> cat[1], sub_category |-> cat[2],
                                     micro_category |-> cat[3]]]
    /\ UNCHANGED <<rows, FAST_MODE, DEEP_FETCH, SEARCH_AVAILABLE, web, next, yielded, out, mainpc, ext>>

---------------------------------------------------------------------------
(* process_rows                                                            *)

\* lines 286-289: ex.submit, row by row
Submit ==
    /\ mainpc = "submit"
    /\ next <= Len(rows)
    /\ task' = [task EXCEPT ![next].pc = "queued"]
    /\ next' = next + 1
    /\ UNCHANGED <<rows, FAST_MODE, DEEP_FETCH, SEARCH_AVAILABLE, web, yielded, out, mainpc, ext>>

AllSubmitted ==
    /\ mainpc = "submit"
    /\ next > Len(rows)
    /\ mainpc' = "collect"
    /\ UNCHANGED <<rows, FAST_MODE, DEEP_FETCH, SEARCH_AVAILABLE, web, task, next, yielded, out, ext>>

\* line 291: the index a yielded future is stored at, futures[fut]
SlotInCompletionOrder(i, done) == Len(done) + 1
Slot(i, done) == i

\* lines 290-291: as_completed yields a finished future not yielded before;
\* fut.result() returns its value or raises its exception
Collect(i) ==
    /\ mainpc = "collect"
    /\ task[i].pc = "done"
    /\ \A k \in 1..Len(yielded) : yielded[k] # i
    /\ yielded' = Append(yielded, i)
    /\ IF task[i].exc
       THEN mainpc' = "aborted" /\ out' = out
       ELSE mainpc' = mainpc /\ out' = [out EXCEPT ![Slot(i, yielded)] = task[i].result]
    /\ UNCHANGED <<rows, FAST_MODE, DEEP_FETCH, SEARCH_AVAILABLE, web, task, next, ext>>

\* line 292
Return ==
    /\ mainpc = "collect"
    /\ Len(yielded) = Len(rows)
    /\ mainpc' = "returned"
    /\ UNCHANGED <<rows, FAST_MODE, DEEP_FETCH, SEARCH_AVAILABLE, web, task, next, yielded, out, ext>>

Next ==
    \/ Submit
    \/ AllSubmitted
    \/ \E i \in DOMAIN task : Start(i)
    \/ \E i \in DOMAIN task : SearchUpCheck(i)
    \/ \E i \in DOMAIN task : SearchUpProbe(i)
    \/ \E i \in DOMAIN task : SearchUpReturn(i)
    \/ \E i \in DOMAIN task : QueryStep(i)
    \/ \E i \in DOMAIN task : Finish(i)
    \/ \E i \in DOMAIN task : Collect(i)
    \/ Return

---------------------------------------------------------------------------
(* Inputs                                                                  *)

MaxRows == 2

Row(name, city, raw) == [name |-> name, city |-> city, turnover_raw |-> raw]

\* rows as read_rows_from_reader leaves them: name and city stripped and non-empty
BATCH == << Row(<<"A","c","m","e"," ","L","o","g","i","s","t","i","c","s">>, <<"P","u","n","e">>, <<>>),
            Row(<<"R","a","m"," ","S","t","o","r","e">>, <<"A","g","r","a">>, <<"t","u","r","n","o","v","e","r"," ","5"," ","c","r">>),
            Row(<<"Z","e","d"," ","C","o","r","p">>, <<"P","u","n","e">>, <<"2"," ","c","r"," ","t","o"," ","4"," ","c","r">>),
            Row(<<"A","c","m","e"," ","L","o","g","i","s","t","i","c","s">>, <<"P","u","n","e">>, <<>>) >>

RECORDS == { Row(<<"A","c","m","e"," ","L","o","g","i","s","t","i","c","s">>, <<"P","u","n","e">>, <<>>),
             Row(<<"R","a","m"," ","S","t","o","r","e">>, <<"A","g","r","a">>, <<>>),
             Row(<<"Z","e","d"," ","C","o","r","p">>, <<"P","u","n","e">>, <<>>),
             Row(<<"Z","e","d"," ","C","o","r","p">>, <<"P","u","n","e">>, <<"t","u","r","n","o","v","e","r"," ","5"," ","c","r">>),
             Row(<<"C","i","t","y"," ","P","a","i","n","t"," ","T","r","a","d","e","r","s">>, <<"A","g","r","a">>, <<"2"," ","c","r"," ","t","o"," ","4"," ","c","r">>),
             Row(<<"S","h","r","e","e"," ","G","e","n","e","r","a","l"," ","S","t","o","r","e","s">>, <<"P","u","n","e">>, <<"n","/","a"," ","1","2">>) }

RECORDS_NET == { Row(<<"Z","e","d"," ","C","o","r","p">>, <<"P","u","n","e">>, <<>>),
                 Row(<<"R","a","m"," ","S","t","o","r","e">>, <<"A","g","r","a">>, <<"t","u","r","n","o","v","e","r"," ","5"," ","c","r">>),
                 Row(<<"C","i","t","y"," ","P","a","i","n","t"," ","T","r","a","d","e","r","s">>, <<"A","g","r","a">>, <<"n","/","a"," ","1","2">>) }

U1 == <<"h","t","t","p",":","/","/","a",".","e","x","a","m","p","l","e","/","1">>
U2 == <<"h","t","t","p",":","/","/","b",".","e","x","a","m","p","l","e","/","2">>
U3 == <<"h","t","t","p",":","/","/","c",".","e","x","a","m","p","l","e","/","3">>
U4 == <<"h","t","t","p",":","/","/","d",".","e","x","a","m","p","l","e","/","4">>

BODY == [u \in {U1, U2, U3, U4} |->
            IF u = U1 THEN <<"a","n","n","u","a","l"," ","r","e","v","e","n","u","e"," ","4","0"," ","c","r","o","r","e">>
            ELSE IF u = U2 THEN <<>>
            ELSE IF u = U3 THEN <<"p","o","l","y","m","e","r"," ","&","a","m","p",";"," ","p","a","i","n","t"," ","u","n","i","t">>
            ELSE <<"i","n","c","o","m","e"," ","9"," ","b","n"," ","u","s","d">>]

\* .result items: <<href, title, snippet>>
ITEMS_ONE == << <<U1, <<>>, <<"s","a","l","e","s"," ","3"," ","c","r">>>> >>
ITEMS_DUP == << <<U1, <<"A","c","m","e">>, <<"r","e","v","e","n","u","e"," ","1","0"," ","c","r","o","r","e"," ","t","o"," ","2","0"," ","c","r","o","r","e">>>>,
                <<U2, <<>>, <<>>>>,
                <<U1, <<"p","r","o","f","i","l","e">>, <<>>>> >>
ITEMS_RANGE == << <<U2, <<>>, <<"2"," ","c","r"," ","t","o"," ","4"," ","c","r">>>>,
                  <<<<>>, <<"n","o"," ","l","i","n","k">>, <<"t","u","r","n","o","v","e","r"," ","9","9"," ","c","r">>>>,
                  <<U3, <<>>, <<>>>> >>
ITEMS_SIX == << <<U3, <<>>, <<>>>>, <<U3, <<>>, <<>>>>, <<U2, <<>>, <<>>>>,
                <<U2, <<>>, <<>>>>, <<U3, <<"l","i","s","t">>, <<>>>>, <<U4, <<>>, <<"t","u","r","n","o","v","e","r"," ","7"," ","c","r">>>> >>
ITEMS_NONE == << >>

URLS == {U1, U2, U3, U4}

Web(items, qdown, qflaky, fdown, fflaky) ==
    [items |-> items, body |-> BODY, qdown |-> qdown, qflaky |-> qflaky,
     fdown |-> fdown, fflaky |-> fflaky]

\* for a batch: the search engine down, up, or partly down with a flaky site
WEBS_BATCH == { Web([q \in 1..6 |-> ITEMS_ONE], 1..6, {}, {}, {}),
                Web([q \in 1..6 |-> ITEMS_ONE], {}, {}, {U1}, {}),
                Web([q \in 1..6 |-> IF q = 4 THEN ITEMS_ONE ELSE ITEMS_NONE], {1, 2, 6}, {}, {}, {U1}) }

\* for one record: every query and every fetch may fail or answer
WEBS == { Web([q \in 1..6 |-> IF q \in {1, 2, 6} THEN ITEMS_DUP ELSE ITEMS_NONE], {}, 1..6, {}, URLS),
          Web([q \in 1..6 |-> IF q % 2 = 1 THEN ITEMS_RANGE ELSE ITEMS_NONE], {}, 1..6, {}, URLS),
          Web([q \in 1..6 |-> IF q = 2 THEN ITEMS_SIX ELSE IF q = 5 THEN ITEMS_DUP ELSE ITEMS_NONE],
              {}, 1..6, {}, URLS) }

ExtIdle == [text |-> <<>>, fn |-> "idle", res |-> <<>>]

InitRows(rs, w, fast) ==
    /\ rows = rs
    /\ web = w
    /\ FAST_MODE = fast
    /\ DEEP_FETCH \in BOOLEAN
    /\ SEARCH_AVAILABLE = "None"
    /\ task = [i \in 1..Len(rs) |-> NewTask]
    /\ next = 1
    /\ yielded = << >>
    /\ out = [i \in 1..Len(rs) |-> None]
    /\ mainpc = "submit"
    /\ ext = ExtIdle

\* a batch of up to MaxRows rows
Init == \E n \in 0..(IF MaxRows < Len(BATCH) THEN MaxRows ELSE Len(BATCH)) :
        \E w \in WEBS_BATCH : \E fast \in BOOLEAN :
            InitRows(SubSeq(BATCH, 1, n), w, fast)

Spec == Init /\ [][Next]_vars

\* one row: in fast mode every record, otherwise the records of RECORDS_NET
\* against each of the webs
InitRecord ==
    \/ \E r \in RECORDS : \E w \in WEBS : InitRows(<<r>>, w, TRUE)
    \/ \E r \in RECORDS_NET : \E w \in WEBS : InitRows(<<r>>, w, FALSE)

SpecRecord == InitRecord /\ [][Next]_vars

---------------------------------------------------------------------------
(* The extractors applied alone to a family of texts                       *)

\* a money mention as written, with what it says: the currency before the
\* number, the number (and its value), the unit
Mention(s, cur, val, unit) == [s |-> s, cur |-> cur, val |-> val, unit |-> unit]

LEADS == {<<>>, <<"r","e","v","e","n","u","e"," ">>, <<"r","e","v","e","n","u","e"," ","b","e","t","w","e","e","n"," ">>, <<"s","a","l","e","s"," ">>, <<"F","Y","2","0","2","3"," ">>, <<"p","a","g","e","s"," ">>}
FIRSTS == { Mention(<<"1","0"," ","c","r","o","r","e">>, <<>>, Rat(10, 1), <<"c","r","o","r","e">>),
            Mention(<<"r","s","."," ","6"," ","l","a","k","h">>, <<"r","s",".">>, Rat(6, 1), <<"l","a","k","h">>),
            Mention(<<"&","p","o","u","n","d",";","3"," ","m","i","l","l","i","o","n">>, <<"£">>, Rat(3, 1), <<"m","i","l","l","i","o","n">>),
            Mention(<<"1",",","5","0","0",",","0","0","0">>, <<>>, Rat(1500000, 1), <<>>),
            Mention(<<"1","2">>, <<>>, Rat(12, 1), <<>>),
            Mention(<<"1","0"," ","m","n">>, <<>>, Rat(10, 1), <<"m","n">>),
            Mention(<<"2",".","5"," ","C","r">>, <<>>, Rat(5, 2), <<"C","r">>) }
FILLER == <<" ","w","a","s"," ","r","e","p","o","r","t","e","d"," ","b","y"," ","t","h","e"," ","c","o","m","p","a","n","y"," ","i","n"," ","i","t","s"," ","f","i","l","i","n","g",","," ","w","h","i","l","e"," ","a"," ","y","e","a","r"," ","l","a","t","e","r"," ","t","h","e"," ","f","i","g","u","r","e"," ","c","a","m","e"," ","t","o"," ","a","b","o","u","t"," ">>
MIDS == { [s |-> <<" ","t","o"," ">>, range |-> TRUE],
          [s |-> <<"-">>, range |-> TRUE],
          [s |-> <<" ","a","n","d"," ">>, range |-> FALSE],
          [s |-> <<" ",";"," ","i","n","c","o","m","e"," ">>, range |-> FALSE],
          [s |-> FILLER, range |-> FALSE] }
SECONDS == { Mention(<<"2","0"," ","c","r","o","r","e">>, <<>>, Rat(20, 1), <<"c","r","o","r","e">>),
             Mention(<<"3","0"," ","m","n">>, <<>>, Rat(30, 1), <<"m","n">>),
             Mention(<<"7">>, <<>>, Rat(7, 1), <<>>),
             Mention(<<"u","s","d"," ","3"," ","b","n">>, <<"u","s","d">>, Rat(3, 1), <<"b","n">>),
             Mention(<<"4"," ","l","a","k","h","s">>, <<>>, Rat(4, 1), <<"l","a","k","h","s">>) }
TAILS == {<<>>, <<" ","r","e","v","e","n","u","e">>}

InitExtract ==
    /\ \E lead \in LEADS : \E m1 \in FIRSTS : \E mid \in MIDS : \E m2 \in SECONDS : \E tail \in TAILS :
          ext = [lead |-> lead, m1 |-> m1, mid |-> mid, m2 |-> m2, tail |-> tail,
                 text |-> lead \o m1.s \o mid.s \o m2.s \o tail,
                 fn |-> "none", res |-> <<>>]
    /\ rows = << >>
    /\ web = Web([q \in 1..6 |-> ITEMS_NONE], {}, {}, {}, {})
    /\ FAST_MODE = TRUE
    /\ DEEP_FETCH = FALSE
    /\ SEARCH_AVAILABLE = "None"
    /\ task = << >>
    /\ next = 1
    /\ yielded = << >>
    /\ out = << >>
    /\ mainpc = "returned"

ApplyPrimary ==
    /\ ext.fn = "none"
    /\ ext' = [ext EXCEPT !.fn = "primary", !.res = extract_turnover_in_cr(ext.text)]
    /\ UNCHANGED pipe_vars

ApplyRange ==
    /\ ext.fn = "none"
    /\ ext' = [ext EXCEPT !.fn = "range", !.res = extract_range_turnover_in_cr(ext.text)]
    /\ UNCHANGED pipe_vars

NextExtract == ApplyPrimary \/ ApplyRange

SpecExtract == InitExtract /\ [][NextExtract]_vars

---------------------------------------------------------------------------
(* Claims                                                                  *)

Done(i) == task[i].pc = "done"
CallsOf(i, op) == SelectSeq(task[i].calls, LAMBDA c : c.op = op)
Range(seq) == {seq[k] : k \in 1..Len(seq)}
Count(seq, x) == Cardinality({k \in 1..Len(seq) : seq[k] = x})

\* C1: process_rows returns a list as long as its input in which entry i is
\* the record built from input row i (same company name and city), whatever
\* the order in which the tasks complete; no entry is left unfilled and none
\* holds another row's result.
C1_OutputInInputOrder ==
    /\ Len(out) = Len(rows)
    /\ \A i \in 1..Len(out) :
          out[i] # None =>
              /\ out[i] = task[i].result
              /\ out[i].company_name = rows[i].name
              /\ out[i].city = rows[i].city
    /\ mainpc = "returned" => \A i \in 1..Len(rows) : out[i] # None

\* the second row's task completed and was collected before the first's
C1_Witness ==
    /\ mainpc = "returned"
    /\ Len(rows) >= 2
    /\ yielded[1] = 2
    /\ out[1].company_name = rows[1].name
    /\ out[2].company_name = rows[2].name
    /\ rows[1].name # rows[2].name

\* the guards of Next: process_rows can submit, collect or return, or some
\* task can take its next step
SomeStepEnabled ==
    \/ mainpc = "submit"
    \/ /\ mainpc = "collect"
       /\ \/ Len(yielded) = Len(rows)
          \/ \E i \in DOMAIN task : Done(i) /\ i \notin Range(yielded)
    \/ \E i \in DOMAIN task :
          \/ Running(task[i]) /\ (task[i].pc = "query" => task[i].q \in 1..6)
          \/ /\ task[i].pc = "queued"
             /\ Cardinality({j \in DOMAIN task : Running(task[j])}) < WORKERS

\* C2: whatever fails among the availability probe, the search queries and
\* the page fetches, every task finishes with an output record whose
\* turnover_in_cr is non-empty, no task is stuck, and the batch is not
\* aborted: process_rows returns one output record per input row.
C2_NoFailureAbortsTheBatch ==
    /\ mainpc # "aborted"
    /\ \A i \in DOMAIN task :
          Done(i) => /\ ~task[i].exc
                     /\ task[i].result # None
                     /\ task[i].result.turnover_in_cr # <<>>
    /\ mainpc = "returned" =>
          /\ Len(out) = Len(rows)
          /\ \A i \in 1..Len(rows) : out[i] # None /\ out[i].turnover_in_cr # <<>>
    /\ mainpc # "returned" => SomeStepEnabled

\* a batch returned although one task saw all six queries fail and another
\* task's probe failed
C2_Witness ==
    /\ mainpc = "returned"
    /\ Len(rows) >= 2
    /\ \E i, j \in DOMAIN task :
          /\ i # j
          /\ Len(CallsOf(i, "query")) = 6
          /\ \A c \in Range(CallsOf(i, "query")) : ~c.ok
          /\ \E c \in Range(CallsOf(j, "probe")) : ~c.ok

\* the turnover stages on the raw field and the name alone
RawOrEstimate(raw, name) ==
    IF extract_turnover_in_cr(raw) # <<>> THEN extract_turnover_in_cr(raw)
    ELSE IF extract_range_turnover_in_cr(raw) # <<>> THEN extract_range_turnover_in_cr(raw)
    ELSE estimate_turnover_in_cr(name)

\* C3: with fast mode on no network operation is ever issued (no probe, no
\* query, no fetch), and each record's turnover is decided by its raw
\* turnover field and the keyword estimate of its name alone.
C3_FastModeNoNetwork ==
    FAST_MODE =>
        /\ SEARCH_AVAILABLE = "None"
        /\ \A i \in DOMAIN task :
              /\ task[i].calls = << >>
              /\ task[i].texts = << >>
              /\ Done(i) => task[i].result.turnover_in_cr =
                                RawOrEstimate(rows[i].turnover_raw, rows[i].name)

\* a fast-mode batch returned, with a turnover read from a raw field
C3_Witness ==
    /\ FAST_MODE
    /\ mainpc = "returned"
    /\ Len(rows) >= 2
    /\ \E i \in DOMAIN task :
          /\ rows[i].turnover_raw # <<>>
          /\ out[i].turnover_in_cr = <<"5",".","0","0"," ","C","r">>

\* C7: all search_up calls return the same boolean, which is the one the
\* process-wide cache holds from its first write onward.
C7_AllCallsReturnTheCachedValue ==
    \A i \in DOMAIN task : task[i].sa # "None" => task[i].sa = SEARCH_AVAILABLE

HasKey(name, table) ==
    \E i \in 1..Len(table) : \E j \in 1..Len(table[i].keys) :
        Contains(lower(name), table[i].keys[j])

DefaultAndNoCategory(r) ==
    /\ r.turnover_in_cr = <<"1","0",".","0","0"," ","C","r">>
    /\ r.category = <<>>
    /\ r.sub_category = <<>>
    /\ r.micro_category = <<>>

\* C4 as stated: for a record with no raw turnover field, no network
\* evidence and a name that contains no category keyword, turnover_in_cr is
\* the default estimate "10.00 Cr" and the three category fields are empty.
C4_Original ==
    \A i \in DOMAIN task :
        (/\ Done(i)
         /\ rows[i].turnover_raw = <<>>
         /\ task[i].texts = << >>
         /\ ~HasKey(rows[i].name, NAME_MAP))
        => DefaultAndNoCategory(task[i].result)

\* C4 as amended: for a record with no raw turnover field, no network
\* evidence and a name that contains neither a category keyword nor an
\* estimator keyword ("store" is an estimator keyword and no category
\* keyword), turnover_in_cr is "10.00 Cr" and the category fields are empty.
C4_DefaultEstimate ==
    \A i \in DOMAIN task :
        (/\ Done(i)
         /\ rows[i].turnover_raw = <<>>
         /\ task[i].texts = << >>
         /\ ~HasKey(rows[i].name, NAME_MAP)
         /\ ~HasKey(rows[i].name, ESTIMATE_BY_KEYWORD))
        => DefaultAndNoCategory(task[i].result)

\* such a record, processed with the search up and every query failing
C4_Witness ==
    \E i \in DOMAIN task :
        /\ Done(i)
        /\ rows[i].turnover_raw = <<>>
        /\ task[i].texts = << >>
        /\ Len(CallsOf(i, "query")) = 6
        /\ ~HasKey(rows[i].name, NAME_MAP)
        /\ ~HasKey(rows[i].name, ESTIMATE_BY_KEYWORD)
        /\ DefaultAndNoCategory(task[i].result)

STAGES == <<"primary_text", "range_text", "primary_raw", "range_raw", "estimate">>
StageValue(stage, text, raw, name) ==
    IF stage = "primary_text" THEN extract_turnover_in_cr(text)
    ELSE IF stage = "range_text" THEN extract_range_turnover_in_cr(text)
    ELSE IF stage = "primary_raw" THEN extract_turnover_in_cr(raw)
    ELSE IF stage = "range_raw" THEN extract_range_turnover_in_cr(raw)
    ELSE estimate_turnover_in_cr(name)
StageIndex(stage) == CHOOSE k \in 1..Len(STAGES) : STAGES[k] = stage

\* C6: the stages are tried in the order primary on the evidence, range on
\* the evidence, primary then range on the raw field, estimate; the output
\* is the value of the first stage in that order that yields a non-empty
\* value, that stage is the last one run, and every stage run before it
\* yielded nothing: range only after an empty primary on the same text, the
\* raw field only after empty evidence, the estimate only after all of them.
C6_FirstStageWins ==
    \A i \in DOMAIN task :
        Done(i) =>
            LET text == Join(task[i].texts)
                raw == rows[i].turnover_raw
                name == rows[i].name
                ran == task[i].ran
                first == Min({k \in 1..Len(STAGES) : StageValue(STAGES[k], text, raw, name) # <<>>})
            IN /\ Len(ran) >= 1
               /\ \A k \in 1..(Len(ran) - 1) : StageIndex(ran[k]) < StageIndex(ran[k + 1])
               /\ ran[Len(ran)] = STAGES[first]
               /\ task[i].result.turnover_in_cr = StageValue(STAGES[first], text, raw, name)
               /\ \A k \in 1..(Len(ran) - 1) : StageValue(ran[k], text, raw, name) = <<>>
               /\ \A k \in 1..(first - 1) :
                     (STAGES[k] \in {"primary_text", "range_text"} \/ raw # <<>>)
                         => STAGES[k] \in Range(ran)

\* evidence was gathered and held no figure, so the raw field decided
C6_Witness ==
    \E i \in DOMAIN task :
        /\ Done(i)
        /\ task[i].texts # << >>
        /\ task[i].ran = <<"primary_text", "range_text", "primary_raw">>
        /\ task[i].result.turnover_in_cr = <<"5",".","0","0"," ","C","r">>

\* the texts the answers logged in calls contribute: per answered query the
\* non-empty snippets and titles of its results, per answered fetch the page text
RECURSIVE Contributed(_, _)
Contributed(calls, body) ==
    IF Len(calls) = 0 THEN << >>
    ELSE LET c == calls[1]
             own == IF c.op = "query" /\ c.ok
                    THEN SelectSeq([k \in 1..(2 * Len(c.results)) |->
                                       IF k % 2 = 1 THEN c.results[(k + 1) \div 2][3]
                                       ELSE c.results[k \div 2][2]],
                                   LAMBDA s : s # <<>>)
                    ELSE IF c.op = "fetch" /\ c.ok THEN <<fetch_page_text(body[c.arg])>>
                    ELSE << >>
         IN own \o Contributed(Tail(calls), body)

\* C8: with the search available, a failing query or fetch contributes no
\* text and gathering goes on: all six query variants are issued in order,
\* every result of an answered query is processed (its new url fetched under
\* deep fetch), and the evidence is exactly the snippets, titles and page
\* texts of the answers, those before and those after a failure.
C8_FailuresSkippedGatheringContinues ==
    \A i \in DOMAIN task :
        (task[i].pc \in {"extract", "done"} /\ task[i].sa = "True") =>
            LET qs == CallsOf(i, "query")
                fs == CallsOf(i, "fetch")
                want == Contributed(task[i].calls, web.body)
            IN /\ [k \in 1..Len(qs) |-> qs[k].arg] = Queries(rows[i].name, rows[i].city)
               /\ Len(task[i].texts) = Len(want)
               /\ \A s \in Range(want) : Count(task[i].texts, s) = Count(want, s)
               /\ DEEP_FETCH =>
                     {fs[k].arg : k \in 1..Len(fs)} =
                         UNION {UrlsOf(qs[k].results) : k \in {j \in 1..Len(qs) : qs[j].ok}}

\* a query failed, a later one answered; in it a fetch failed and the next
\* result's fetch answered, and its page text is in the evidence
C8_Witness ==
    \E i \in DOMAIN task :
        /\ Done(i)
        /\ task[i].sa = "True"
        /\ \E a, b \in 1..Len(task[i].calls) :
              /\ a < b
              /\ b < Len(task[i].calls)
              /\ task[i].calls[a].op = "query" /\ ~task[i].calls[a].ok
              /\ task[i].calls[b].op = "fetch" /\ ~task[i].calls[b].ok
              /\ task[i].calls[b + 1].op = "fetch" /\ task[i].calls[b + 1].ok
              /\ fetch_page_text(web.body[task[i].calls[b + 1].arg]) \in Range(task[i].texts)

\* C9: within one record each distinct url is submitted to the page fetcher
\* at most once, however often the queries return it and whether or not its
\* fetch failed; with deep fetch off no page is fetched at all.
C9_EachUrlFetchedAtMostOnce ==
    \A i \in DOMAIN task :
        LET fs == CallsOf(i, "fetch")
        IN /\ \A a, b \in 1..Len(fs) : a # b => fs[a].arg # fs[b].arg
           /\ ~DEEP_FETCH => fs = << >>

\* a url returned twice by one query and again by a later one, whose only
\* fetch failed
C9_Witness ==
    \E i \in DOMAIN task :
        /\ Done(i)
        /\ DEEP_FETCH
        /\ LET qs == CallsOf(i, "query")
               fs == CallsOf(i, "fetch")
           IN \E u \in URLS :
                 /\ Cardinality({k \in 1..Len(qs) : qs[k].ok /\ Count([r \in 1..Len(qs[k].results) |-> qs[k].results[r][1]], u) = 2}) >= 2
                 /\ \E k \in 1..Len(fs) : fs[k].arg = u /\ ~fs[k].ok

\* the unit the range pattern captures for its second bound: its first
\* alternative that is a prefix of the unit as written
HighUnit(unit) == UNITS[Min({k \in 1..Len(UNITS) : LitAt(lower(unit), 1, UNITS[k])})]
CrValue(display) == ParseFloat(SplitFirst(display))
\* the text is a range: <number><unit>, "to" or "-", <number><unit>
RangeShape(e) == e.m1.unit # <<>> /\ e.mid.range /\ e.m2.cur = <<>> /\ e.m2.unit # <<>>

Survivors(text) ==
    LET t == unescape(text)
        ms == finditer(t)
        Cur(m) == IF m.cur1 # <<>> THEN m.cur1 ELSE m.cur2
        Num(m) == ParseFloat(StripCommas(m.num))
        keep == SelectSeq(ms, LAMBDA m :
                    /\ Gated(Window(lower(t), m))
                    /\ ~(m.unit = <<>> /\ Cur(m) = <<>> /\ RLess(Num(m), Rat(1000000, 1))))
    IN [k \in 1..Len(keep) |->
           [score |-> 2 + (IF keep[k].unit # <<>> THEN 2 ELSE 0)
                        + (IF Cur(keep[k]) # <<>> THEN 1 ELSE 0)
                        + (IF SearchWords(Window(lower(t), keep[k]), <<<<"t","u","r","n","o","v","e","r">>, <<"r","e","v","e","n","u","e">>>>)
                           THEN 2 ELSE 0),
            value |-> to_inr_cr(Num(keep[k]), keep[k].unit, Cur(keep[k]))]]

\* C10: the primary extractor scores each surviving match 1.0, plus 1.0 for
\* a magnitude word, plus 0.5 for a currency marker, plus 1.0 when its
\* context window contains the word "turnover" or "revenue", and returns the
\* canonical value of the highest-scoring match, the first one among equal
\* scores; it returns the empty string exactly when no match survives.
C10_HighestScoreFirstWins ==
    ext.fn = "primary" =>
        LET sv == Survivors(ext.text)
        IN IF Len(sv) = 0 THEN ext.res = <<>>
           ELSE LET top == CHOOSE s \in {sv[k].score : k \in 1..Len(sv)} :
                               \A k \in 1..Len(sv) : sv[k].score <= s
                    best == Min({k \in 1..Len(sv) : sv[k].score = top})
                IN ext.res = sv[best].value /\ ext.res # <<>>

\* two survivors share the highest score with different values, and a
\* lower-scoring one comes before them: the first of the two is returned
C10_Witness ==
    /\ ext.fn = "primary"
    /\ LET sv == Survivors(ext.text)
       IN \E a, b \in 1..Len(sv) :
             /\ a < b
             /\ sv[a].score = sv[b].score
             /\ \A k \in 1..Len(sv) : sv[k].score <= sv[a].score
             /\ sv[a].value # sv[b].value
             /\ ext.res = sv[a].value

====
